---------------------------- MODULE Spec2Model ----------------------------
(***************************************************************************)
(* Sync-safe file names (Obsidian plugin).                                 *)
(*                                                                         *)
(* Strings are sequences of UTF-16 code units (numbers), so that the       *)
(* character ranges of the regular expression built by getSafeName keep    *)
(* their order.                                                            *)
(***************************************************************************)
EXTENDS Integers, Sequences, FiniteSets, TLC

(***************************************************************************)
(* Code units named in the model.                                          *)
(***************************************************************************)
TAB == 9
SPACE == 32
QUOTE == 34
APOSTROPHE == 39
COMMA == 44
HYPHEN == 45
DOT == 46
SLASH == 47
DIGIT_0 == 48
DIGIT_9 == 57
QUESTION == 63
UPPER_A == 65
UPPER_Z == 90
LBRACKET == 91
BACKSLASH == 92
RBRACKET == 93
CARET == 94
UNDERSCORE == 95
LOWER_A == 97
LOWER_M == 109
LOWER_Z == 122
EN_DASH == 8211
EM_DASH == 8212
RSQUO == 8217
LDQUO == 8220
RDQUO == 8221

(***************************************************************************)
(* Bounds of the model.                                                    *)
(***************************************************************************)
MaxRawLen == 3
MaxAddLen == 2
MaxEntries == 2
MaxTasks == 2
MaxBatches == 1
MaxExternalRenames == 1
MaxIds == 3

VARIABLES
    inputName,                 \* getSafeName alone: its first argument
    inputAdditional,           \* getSafeName alone: its second argument
    calls,                     \* getSafeName alone: what the successive calls returned
    vault,                     \* the entries of the vault (files and folders), by identity
    settings,                  \* SyncSafePlugin.settings
    data,                      \* what loadData returned or saveData last stored
    automaticRenameCallbacks,  \* SyncSafePlugin.automaticRenameCallbacks
    subscribed,                \* the (create, rename) handler pairs subscribed on the vault
    layoutReady,               \* has the workspace layout become ready
    layoutQueue,               \* callbacks waiting in workspace.onLayoutReady
    tasks,                     \* the rename attempts and timers, in the order they started
    plans,                     \* what getFilesToRename returned to each renameAllFiles
    externalRenames,           \* how many renames the user has made in the host
    report,                    \* what generateReport inserted into the editor
    lastSave                   \* how the last call of saveSettings ended

safeNameVars == <<inputName, inputAdditional, calls>>

pluginVars ==
    <<vault, settings, data, automaticRenameCallbacks, subscribed, layoutReady,
      layoutQueue, tasks, plans, externalRenames, report, lastSave>>

vars == <<safeNameVars, pluginVars>>

SeqsUpTo(S, n) == UNION {[1..k -> S] : k \in 0..n}

MapSeq(s, f(_)) == [i \in 1..Len(s) |-> f(s[i])]

(***************************************************************************)
(* src/safe-name.ts                                                        *)
(***************************************************************************)

\* "-a-zA-Z0-9._ "
baseCharacters ==
    <<HYPHEN, LOWER_A, HYPHEN, LOWER_Z, UPPER_A, HYPHEN, UPPER_Z,
      DIGIT_0, HYPHEN, DIGIT_9, DOT, UNDERSCORE, SPACE>>

\* additionalCharacters.replace(/[[\]]/g, "")
StripBrackets(s) == SelectSeq(s, LAMBDA c : c \notin {LBRACKET, RBRACKET})

\* WhiteSpace and LineTerminator of ECMAScript: what String.prototype.trim
\* strips and what \s matches.
IsWhiteSpace(c) ==
    \/ c \in {9, 10, 11, 12, 13, 32, 160, 5760, 8232, 8233, 8239, 8287, 12288, 65279}
    \/ c \in 8192..8202

IsDigit(c) == c \in DIGIT_0..DIGIT_9

\* \w
IsWord(c) ==
    \/ IsDigit(c)
    \/ c \in UPPER_A..UPPER_Z
    \/ c \in LOWER_A..LOWER_Z
    \/ c = UNDERSCORE

\* The atom a backslash followed by c denotes inside a character class
\* (no u flag, Annex B): a CharacterClassEscape (d D s S w W), a
\* ControlEscape (t n v f r), b (backspace), 0 (NUL), and otherwise the
\* identity escape.  The escapes c, x, u, k and 1-9 read further characters;
\* the inputs of the model never hold them after a backslash.
EscapeAtom(c) ==
    CASE c = 100 -> [kind |-> "digit", cp |-> 0]
      [] c = 68  -> [kind |-> "notdigit", cp |-> 0]
      [] c = 115 -> [kind |-> "space", cp |-> 0]
      [] c = 83  -> [kind |-> "notspace", cp |-> 0]
      [] c = 119 -> [kind |-> "word", cp |-> 0]
      [] c = 87  -> [kind |-> "notword", cp |-> 0]
      [] c = 116 -> [kind |-> "char", cp |-> 9]
      [] c = 110 -> [kind |-> "char", cp |-> 10]
      [] c = 118 -> [kind |-> "char", cp |-> 11]
      [] c = 102 -> [kind |-> "char", cp |-> 12]
      [] c = 114 -> [kind |-> "char", cp |-> 13]
      [] c = 98  -> [kind |-> "char", cp |-> 8]
      [] c = 48  -> [kind |-> "char", cp |-> 0]
      [] OTHER   -> [kind |-> "char", cp |-> c]

\* The ClassAtom that starts at body[i].  A backslash that ends the body
\* escapes the closing bracket of `[^${body}]`: the class never ends and
\* the RegExp constructor throws a SyntaxError.
ClassAtom(body, i) ==
    IF body[i] = BACKSLASH
    THEN IF i = Len(body)
         THEN [error |-> TRUE, width |-> 1, kind |-> "char", cp |-> 0]
         ELSE LET e == EscapeAtom(body[i + 1])
              IN  [error |-> FALSE, width |-> 2, kind |-> e.kind, cp |-> e.cp]
    ELSE [error |-> FALSE, width |-> 1, kind |-> "char", cp |-> body[i]]

ClassItem(atom) ==
    [kind |-> IF atom.kind = "char" THEN "range" ELSE atom.kind,
     lo |-> atom.cp, hi |-> atom.cp]

ClassError == [error |-> TRUE, items |-> <<>>]

\* ClassRanges of the ECMAScript grammar, from body[i] on, after the items
\* read so far: an atom followed by a hyphen and a further atom is a range
\* (a SyntaxError when out of order; when one end is a class escape, Annex B
\* takes both ends and the hyphen themselves); any other atom, a hyphen
\* included, stands for itself.
RECURSIVE ClassRanges(_, _, _)
ClassRanges(body, i, items) ==
    IF i > Len(body)
    THEN [error |-> FALSE, items |-> items]
    ELSE LET a == ClassAtom(body, i)
             j == i + a.width
         IN  IF a.error
             THEN ClassError
             ELSE IF j < Len(body) /\ body[j] = HYPHEN
             THEN LET b == ClassAtom(body, j + 1)
                  IN  IF b.error
                      THEN ClassError
                      ELSE IF a.kind = "char" /\ b.kind = "char"
                      THEN IF a.cp > b.cp
                           THEN ClassError
                           ELSE ClassRanges(body, j + 1 + b.width,
                                    Append(items, [kind |-> "range", lo |-> a.cp,
                                                   hi |-> b.cp]))
                      ELSE ClassRanges(body, j + 1 + b.width,
                               items \o <<ClassItem(a), ClassItem(b),
                                          [kind |-> "range", lo |-> HYPHEN,
                                           hi |-> HYPHEN]>>)
             ELSE ClassRanges(body, j, Append(items, ClassItem(a)))

ItemHas(item, c) ==
    CASE item.kind = "range"    -> item.lo <= c /\ c <= item.hi
      [] item.kind = "digit"    -> IsDigit(c)
      [] item.kind = "notdigit" -> ~IsDigit(c)
      [] item.kind = "space"    -> IsWhiteSpace(c)
      [] item.kind = "notspace" -> ~IsWhiteSpace(c)
      [] item.kind = "word"     -> IsWord(c)
      [] item.kind = "notword"  -> ~IsWord(c)

\* new RegExp(`[^${baseCharacters}${safeAdditionalCharacters}]`, "g")
NewRegExp(body) == ClassRanges(body, 1, <<>>)

\* Does the negated class match the code unit c ?
RegExpMatches(regexp, c) ==
    ~ \E k \in 1..Len(regexp.items) : ItemHas(regexp.items[k], c)

\* .replace(/[–—]/g, "-")
ReplaceDashes(s) == MapSeq(s, LAMBDA c : IF c \in {EN_DASH, EM_DASH} THEN HYPHEN ELSE c)

\* .replace(/’/g, "'")
ReplaceApostrophe(s) == MapSeq(s, LAMBDA c : IF c = RSQUO THEN APOSTROPHE ELSE c)

\* .replace(/[“”]/g, "\"")
ReplaceQuotes(s) == MapSeq(s, LAMBDA c : IF c \in {LDQUO, RDQUO} THEN QUOTE ELSE c)

\* .replace(regexp, "-")
ReplaceUnknown(s, regexp) ==
    MapSeq(s, LAMBDA c : IF RegExpMatches(regexp, c) THEN HYPHEN ELSE c)

\* String.prototype.trim
Trim(s) ==
    LET keep == {i \in 1..Len(s) : ~IsWhiteSpace(s[i])}
        first == CHOOSE i \in keep : \A k \in keep : i <= k
        last == CHOOSE i \in keep : \A k \in keep : k <= i
    IN  IF keep = {} THEN <<>> ELSE SubSeq(s, first, last)

Threw == [threw |-> TRUE, value |-> <<>>]

Returned(s) == [threw |-> FALSE, value |-> s]

\* getSafeName with the typographic replacements made after the replacement
\* of the unknown characters instead of before it.
getSafeName_replaceUnknownFirst(rawFileName, additionalCharacters) ==
    LET safeAdditionalCharacters == StripBrackets(additionalCharacters)
        regexp == NewRegExp(baseCharacters \o safeAdditionalCharacters)
    IN  IF regexp.error
        THEN Threw
        ELSE Returned(Trim(ReplaceQuotes(ReplaceApostrophe(ReplaceDashes(
                 ReplaceUnknown(rawFileName, regexp))))))

\* getSafeName(rawFileName, additionalCharacters): the string returned, or
\* the SyntaxError thrown by the RegExp constructor.
getSafeName(rawFileName, additionalCharacters) ==
    LET safeAdditionalCharacters == StripBrackets(additionalCharacters)
        regexp == NewRegExp(baseCharacters \o safeAdditionalCharacters)
    IN  IF regexp.error
        THEN Threw
        ELSE Returned(Trim(ReplaceUnknown(
                 ReplaceQuotes(ReplaceApostrophe(ReplaceDashes(rawFileName))),
                 regexp)))


(***************************************************************************)
(* The names and settings the vault and the plugin are given.              *)
(***************************************************************************)

\* Names of vault entries: "?.m", "'.m" and "-.m".
NameChoices ==
    {<<QUESTION, DOT, LOWER_M>>, <<APOSTROPHE, DOT, LOWER_M>>,
     <<HYPHEN, DOT, LOWER_M>>}

\* Values of the "Allowed special characters" setting: "", "'" and "\".
AdditionalChoices == {<<>>, <<APOSTROPHE>>, <<BACKSLASH>>}

(***************************************************************************)
(* The vault of the host (Obsidian), as far as the plugin uses it.  An     *)
(* entry keeps its identity when it is renamed, as a TAbstractFile does;   *)
(* parent is the identity of its folder, 0 for the root folder.  The vault *)
(* holds at most MaxIds entries, of which MaxEntries are created while the *)
(* plugin runs.                                                            *)
(***************************************************************************)
Ids == 1..MaxIds

NoEntry ==
    [present |-> FALSE, isFile |-> FALSE, parent |-> 0, name |-> <<>>,
     aliases |-> <<>>]

Present(v) == {e \in DOMAIN v : v[e].present}

Min(S) == CHOOSE x \in S : \A y \in S : x <= y

\* String.prototype.split(sep), for a one-character separator
RECURSIVE Split(_, _)
Split(s, sep) ==
    LET at == {i \in 1..Len(s) : s[i] = sep}
    IN  IF at = {}
        THEN <<s>>
        ELSE <<SubSeq(s, 1, Min(at) - 1)>>
             \o Split(SubSeq(s, Min(at) + 1, Len(s)), sep)

\* Array.prototype.join(sep)
RECURSIVE Join(_, _)
Join(parts, sep) ==
    IF parts = <<>>
    THEN <<>>
    ELSE IF Len(parts) = 1
    THEN parts[1]
    ELSE parts[1] \o <<sep>> \o Join(Tail(parts), sep)

\* TAbstractFile.path: the names from the root down, joined by "/".
RECURSIVE PathOf(_, _)
PathOf(v, e) ==
    IF v[e].parent = 0
    THEN v[e].name
    ELSE PathOf(v, v[e].parent) \o <<SLASH>> \o v[e].name

\* file.parent.path; the root folder's path is "/".
ParentPath(v, e) ==
    IF v[e].parent = 0 THEN <<SLASH>> ELSE PathOf(v, v[e].parent)

\* vault.getAbstractFileByPath(path): the entry at path, 0 for null.
getAbstractFileByPath(v, path) ==
    IF \E e \in Present(v) : PathOf(v, e) = path
    THEN CHOOSE e \in Present(v) : PathOf(v, e) = path
    ELSE 0

\* vault.getFiles(): the regular files, in the order of their creation.
RECURSIVE getFilesFrom(_, _)
getFilesFrom(v, e) ==
    IF e > MaxIds
    THEN <<>>
    ELSE (IF v[e].present /\ v[e].isFile THEN <<e>> ELSE <<>>)
         \o getFilesFrom(v, e + 1)

getFiles(v) == getFilesFrom(v, 1)

\* TFile.basename: the name without its extension.
Basename(name) ==
    LET dots == {i \in 1..Len(name) : name[i] = DOT}
        last == CHOOSE i \in dots : \A k \in dots : k <= i
    IN  IF dots = {} \/ last = 1 \/ last = Len(name)
        THEN name
        ELSE SubSeq(name, 1, last - 1)

\* app.fileManager.renameFile(file, newPath), one atomic step of the host:
\* it throws an Error, and changes nothing, when an underlying failure
\* occurs (io), when newPath names an existing file or folder, or when
\* the folder of newPath does not exist; otherwise the entry gets the
\* folder and the name of newPath.
renameFile(v, f, newPath, io) ==
    LET parts == Split(newPath, SLASH)
        folderPath == Join(SubSeq(parts, 1, Len(parts) - 1), SLASH)
        folder == IF folderPath = <<>> THEN 0 ELSE getAbstractFileByPath(v, folderPath)
    IN  IF io
        THEN [thrown |-> TRUE, message |-> "EIO", vault |-> v]
        ELSE IF getAbstractFileByPath(v, newPath) # 0
        THEN [thrown |-> TRUE, message |-> "Destination file already exists!",
              vault |-> v]
        ELSE IF folderPath # <<>> /\ (folder = 0 \/ v[folder].isFile)
        THEN [thrown |-> TRUE, message |-> "ENOENT", vault |-> v]
        ELSE [thrown |-> FALSE, message |-> "",
              vault |-> [v EXCEPT ![f].parent = folder,
                                  ![f].name = parts[Len(parts)]]]

\* fileManager.processFrontMatter(file, fn) with the fn of setAlias:
\* frontmatter.aliases gets the alias appended (and is created when absent).
setAlias(v, f, alias) == [v EXCEPT ![f].aliases = Append(@, alias)]

(***************************************************************************)
(* src/unnamed/part_000: SyncSafePlugin                                    *)
(***************************************************************************)

\* getSafeNameFromFile that appends a hyphen to the safe name, so that no
\* name it returns is its own safe name.
getSafeNameFromFile_appendingHyphen(v, st, f) ==
    LET safe == getSafeName(v[f].name, st.additionalCharacters)
    IN  IF safe.threw THEN safe ELSE Returned(Append(safe.value, HYPHEN))

\* getSafeNameFromFile(file)
getSafeNameFromFile(v, st, f) == getSafeName(v[f].name, st.additionalCharacters)

\* getSafePath(file, safeName)
getSafePath(v, f, safeName) ==
    Append(SelectSeq(Split(ParentPath(v, f), SLASH), LAMBDA part : Len(part) # 0),
           safeName)


(***************************************************************************)
(* src/result.ts                                                           *)
(***************************************************************************)
NoResult ==
    [kind |-> "pending", alreadySafe |-> FALSE, code |-> "", safeName |-> <<>>,
     message |-> ""]

\* success(data)
success(alreadySafe, safeName) ==
    [kind |-> "success", alreadySafe |-> alreadySafe, code |-> "",
     safeName |-> safeName, message |-> ""]

\* failure(error, {message, data})
failure(code, safeName, message) ==
    [kind |-> "failure", alreadySafe |-> FALSE, code |-> code,
     safeName |-> safeName, message |-> message]

\* A promise rejected by an exception that nothing catches.
Rejected ==
    [kind |-> "rejected", alreadySafe |-> FALSE, code |-> "", safeName |-> <<>>,
     message |-> "SyntaxError"]

\* Nothing has been inserted into the editor.
NoReport == [inserted |-> FALSE, threw |-> FALSE, rows |-> <<>>]

(***************************************************************************)
(* Rename attempts.  A task is one call of renameSingleFile (origin        *)
(* manual, or event for onRename and onCreate), one moveFile of            *)
(* renameAllFiles (origin batch), or the timer of onCreate before it       *)
(* fires (pc timer).  pc is                                                *)
(* where the call waits: alias (processFrontMatter requested), move        *)
(* (renameFile requested) or done.  batch is the call of renameAllFiles a  *)
(* move belongs to, 0 for none.                                            *)
(***************************************************************************)
NewTask(origin, f) ==
    [origin |-> origin, file |-> f, batch |-> 0, pc |-> "timer",
     previousName |-> <<>>, safeName |-> <<>>, newPath |-> <<>>, alias |-> <<>>,
     moved |-> NoResult, result |-> NoResult]

\* renameSingleFile with the alias gated by settings.addOriginalAlias
\* instead of settings.renameAutomatically.
renameSingleFile_aliasByAddOriginalAlias(v, st, f, origin) ==
    LET previousName == v[f].name
        safe == getSafeNameFromFile(v, st, f)
        safeName == safe.value
        newPath == getSafePath(v, f, safeName)
        call == [NewTask(origin, f) EXCEPT !.previousName = previousName]
    IN  IF safe.threw
        THEN [call EXCEPT !.pc = "done", !.result = Rejected]
        ELSE IF previousName = safeName
        THEN [call EXCEPT !.pc = "done", !.result = success(TRUE, <<>>)]
        ELSE IF v[f].isFile /\ st.addOriginalAlias
        THEN [call EXCEPT !.pc = "alias", !.safeName = safeName,
                          !.newPath = newPath, !.alias = Basename(v[f].name)]
        ELSE [call EXCEPT !.pc = "move", !.safeName = safeName,
                          !.newPath = newPath]

\* renameSingleFile without the return for a name that is already safe.
renameSingleFile_noEarlyReturn(v, st, f, origin) ==
    LET previousName == v[f].name
        safe == getSafeNameFromFile(v, st, f)
        safeName == safe.value
        newPath == getSafePath(v, f, safeName)
        call == [NewTask(origin, f) EXCEPT !.previousName = previousName]
    IN  IF safe.threw
        THEN [call EXCEPT !.pc = "done", !.result = Rejected]
        ELSE IF v[f].isFile /\ st.renameAutomatically
        THEN [call EXCEPT !.pc = "alias", !.safeName = safeName,
                          !.newPath = newPath, !.alias = Basename(v[f].name)]
        ELSE [call EXCEPT !.pc = "move", !.safeName = safeName,
                          !.newPath = newPath]

\* renameSingleFile(file), up to its first await.
renameSingleFile(v, st, f, origin) ==
    LET previousName == v[f].name
        safe == getSafeNameFromFile(v, st, f)
        safeName == safe.value
        newPath == getSafePath(v, f, safeName)
        call == [NewTask(origin, f) EXCEPT !.previousName = previousName]
    IN  IF safe.threw
        THEN [call EXCEPT !.pc = "done", !.result = Rejected]
        ELSE IF previousName = safeName
        THEN [call EXCEPT !.pc = "done", !.result = success(TRUE, <<>>)]
        ELSE IF v[f].isFile /\ st.renameAutomatically
        THEN [call EXCEPT !.pc = "alias", !.safeName = safeName,
                          !.newPath = newPath, !.alias = Basename(v[f].name)]
        ELSE [call EXCEPT !.pc = "move", !.safeName = safeName,
                          !.newPath = newPath]

\* renameSingleFile(file), from the result of moveFile on.
renameSingleFileResult(t, result) ==
    IF result.kind = "success"
    THEN success(FALSE, t.safeName)
    ELSE IF result.code = "alreadyExists"
    THEN failure("alreadyExists", t.safeName, "")
    ELSE failure("unspecified", <<>>, result.message)

\* moveFile that deletes what is at the destination before it renames.
moveFile_overwriting(v, f, newPath, io) ==
    LET target == getAbstractFileByPath(v, Join(newPath, SLASH))
        cleared == IF target \notin {0, f} THEN [v EXCEPT ![target] = NoEntry] ELSE v
        r == renameFile(cleared, f, Join(newPath, SLASH), io)
    IN  IF ~r.thrown
        THEN [vault |-> r.vault, result |-> success(FALSE, <<>>)]
        ELSE [vault |-> v, result |-> failure("alreadyExists", <<>>, r.message)]

\* moveFile that takes the aliases of the file back when the rename failed.
moveFile_rollingBack(v, f, newPath, io) ==
    LET r == renameFile(v, f, Join(newPath, SLASH), io)
    IN  IF ~r.thrown
        THEN [vault |-> r.vault, result |-> success(FALSE, <<>>)]
        ELSE [vault |-> [v EXCEPT ![f].aliases = <<>>],
              result |-> failure("alreadyExists", <<>>, r.message)]

\* moveFile with a catch that reports success.
moveFile_swallowingErrors(v, f, newPath, io) ==
    LET r == renameFile(v, f, Join(newPath, SLASH), io)
    IN  [vault |-> r.vault, result |-> success(FALSE, <<>>)]

\* moveFile(file, newPath): the host throws Error objects only.
moveFile(v, f, newPath, io) ==
    LET r == renameFile(v, f, Join(newPath, SLASH), io)
    IN  IF ~r.thrown
        THEN [vault |-> r.vault, result |-> success(FALSE, <<>>)]
        ELSE [vault |-> r.vault, result |-> failure("alreadyExists", <<>>, r.message)]

\* getFilesToRename without the filter: an entry for every regular file.
getFilesToRename_unfiltered(v, st) ==
    LET allFiles == getFiles(v)
        mapped == [i \in 1..Len(allFiles) |->
                     LET safe == getSafeNameFromFile(v, st, allFiles[i])
                     IN  [isAlreadySafe |-> v[allFiles[i]].name = safe.value,
                          safeName |-> safe.value,
                          file |-> allFiles[i]]]
    IN  IF \E i \in 1..Len(allFiles) : getSafeNameFromFile(v, st, allFiles[i]).threw
        THEN [threw |-> TRUE, value |-> <<>>]
        ELSE [threw |-> FALSE, value |-> mapped]

\* getFilesToRename(): the SyntaxError of getSafeName leaves the map.
getFilesToRename(v, st) ==
    LET allFiles == getFiles(v)
        mapped == [i \in 1..Len(allFiles) |->
                     LET safe == getSafeNameFromFile(v, st, allFiles[i])
                     IN  [isAlreadySafe |-> v[allFiles[i]].name = safe.value,
                          safeName |-> safe.value,
                          file |-> allFiles[i]]]
    IN  IF \E i \in 1..Len(allFiles) : getSafeNameFromFile(v, st, allFiles[i]).threw
        THEN [threw |-> TRUE, value |-> <<>>]
        ELSE [threw |-> FALSE,
              value |-> SelectSeq(mapped, LAMBDA entry : ~entry.isAlreadySafe)]

\* left.file.path.localeCompare(right.file.path) <= 0, taken by code units.
PathBefore(left, right) ==
    \/ \E k \in 1..Len(left) :
          /\ k <= Len(right)
          /\ \A j \in 1..(k - 1) : left[j] = right[j]
          /\ left[k] < right[k]
    \/ /\ Len(left) <= Len(right)
       /\ \A j \in 1..Len(left) : left[j] = right[j]

\* filesToRename.sort(...): the entries in the order of their paths.
SortByPath(v, entries) ==
    LET n == Len(entries)
        order == CHOOSE q \in [1..n -> 1..n] :
                    /\ \A i, j \in 1..n : i # j => q[i] # q[j]
                    /\ \A i, j \in 1..n :
                          i < j => PathBefore(PathOf(v, entries[q[i]].file),
                                              PathOf(v, entries[q[j]].file))
    IN  [i \in 1..n |-> entries[order[i]]]

\* One element of checkedFiles: the file, its safe name, whether nothing is
\* at the new path, and the path the "No, already exists" cell names:
\* `${this.getSafePath(...)}` is the array converted to a string, its
\* segments joined by commas.
checkedFile(v, entry, newPath) ==
    [file |-> entry.file,
     safeName |-> entry.safeName,
     newPathAvailable |-> getAbstractFileByPath(v, Join(newPath, SLASH)) = 0,
     alreadyExists |-> Join(newPath, COMMA)]

\* checkedFiles: filesToRename.value.map(...), in the sorted order.
checkedFiles(v, sorted) ==
    [i \in 1..Len(sorted) |->
        checkedFile(v, sorted[i], getSafePath(v, sorted[i].file, sorted[i].safeName))]

\* generateReport from filesToRename on: an error of getFilesToRename is
\* thrown, a value is sorted, checked and inserted.
reportOf(v, filesToRename) ==
    IF filesToRename.threw
    THEN [inserted |-> FALSE, threw |-> TRUE, rows |-> <<>>]
    ELSE [inserted |-> TRUE, threw |-> FALSE,
          rows |-> checkedFiles(v, SortByPath(v, filesToRename.value))]

\* generateReport(editor): what is inserted into the editor.
generateReport(v, st) == reportOf(v, getFilesToRename(v, st))

\* The callback registerAutomaticRenaming hands to workspace.onLayoutReady.
layoutReadyCallback(p) ==
    [p EXCEPT !.subscribed = @ + 1,
              !.automaticRenameCallbacks = [defined |-> TRUE, length |-> 2]]

\* registerAutomaticRenaming(): onLayoutReady runs the callback at once when
\* the layout is ready, and queues it otherwise.
registerAutomaticRenaming(p, ready) ==
    IF ready THEN layoutReadyCallback(p) ELSE [p EXCEPT !.layoutQueue = @ + 1]

\* unregisterAutomaticRenaming(): offref of the references held.
unregisterAutomaticRenaming(p) ==
    [p EXCEPT !.subscribed = @ - (p.automaticRenameCallbacks.length \div 2),
              !.automaticRenameCallbacks = [defined |-> TRUE, length |-> 0]]

\* saveSettings() without the branch that unregisters.
saveSettings_neverUnregistering(p, st, ready) ==
    IF ~p.automaticRenameCallbacks.defined
    THEN [p EXCEPT !.saveThrew = TRUE]
    ELSE LET q == IF st.renameAutomatically /\ p.automaticRenameCallbacks.length = 0
                  THEN registerAutomaticRenaming(p, ready)
                  ELSE p
         IN  [q EXCEPT !.data = st, !.saveThrew = FALSE]

\* saveSettings(): reading .length of an undefined automaticRenameCallbacks
\* throws a TypeError before saveData is reached.
saveSettings(p, st, ready) ==
    IF ~p.automaticRenameCallbacks.defined
    THEN [p EXCEPT !.saveThrew = TRUE]
    ELSE LET q == IF st.renameAutomatically /\ p.automaticRenameCallbacks.length = 0
                  THEN registerAutomaticRenaming(p, ready)
                  ELSE IF ~st.renameAutomatically /\ p.automaticRenameCallbacks.length > 0
                  THEN unregisterAutomaticRenaming(p)
                  ELSE p
         IN  [q EXCEPT !.data = st, !.saveThrew = FALSE]

\* The plugin's registration state, as the operators above pass it on.
Registration ==
    [automaticRenameCallbacks |-> automaticRenameCallbacks,
     subscribed |-> subscribed, layoutQueue |-> layoutQueue, data |-> data,
     saveThrew |-> FALSE]

SetRegistration(p) ==
    /\ automaticRenameCallbacks' = p.automaticRenameCallbacks
    /\ subscribed' = p.subscribed
    /\ layoutQueue' = p.layoutQueue
    /\ data' = p.data

\* onRename(file), run once for every subscription of the rename event.
onRename(v, st, f, n) == [k \in 1..n |-> renameSingleFile(v, st, f, "event")]

\* onCreate(file), run once for every subscription of the create event:
\* setTimeout(..., 100).
onCreate(f, n) == [k \in 1..n |-> NewTask("event", f)]


(***************************************************************************)
(* The inputs getSafeName alone is given.                                  *)
(***************************************************************************)

\* Code units of the raw names and of the additional characters given to
\* getSafeName alone.
RawAlphabet == {LOWER_A, SPACE, TAB, QUESTION, BACKSLASH, RSQUO}

AddAlphabet == {HYPHEN, TAB, BACKSLASH, RSQUO, CARET, LBRACKET}

(***************************************************************************)
(* The plugin: the state after onload, and its operations.                 *)
(***************************************************************************)
\* onload(): loadSettings, which finds one of the stored settings, then
\* registerAutomaticRenaming when settings.renameAutomatically.  The vault
\* is filled by Create.
Loaded(stored) ==
    /\ vault = [e \in Ids |-> NoEntry]
    /\ settings \in stored
    /\ data = settings
    /\ layoutReady \in BOOLEAN
    /\ LET p == [automaticRenameCallbacks |-> [defined |-> FALSE, length |-> 0],
                 subscribed |-> 0, layoutQueue |-> 0, data |-> data,
                 saveThrew |-> FALSE]
           q == IF settings.renameAutomatically
                THEN registerAutomaticRenaming(p, layoutReady)
                ELSE p
       IN  /\ automaticRenameCallbacks = q.automaticRenameCallbacks
           /\ subscribed = q.subscribed
           /\ layoutQueue = q.layoutQueue
    /\ tasks = <<>>
    /\ plans = <<>>
    /\ externalRenames = 0
    /\ report = NoReport
    /\ lastSave = "none"

PluginInit ==
    Loaded([renameAutomatically : BOOLEAN, addOriginalAlias : {TRUE},
            additionalCharacters : AdditionalChoices])

Init ==
    /\ inputName = <<>>
    /\ inputAdditional = <<>>
    /\ calls = <<>>
    /\ PluginInit

\* The host creates a file or a folder (the user, a sync, another plugin)
\* and triggers the create event.
Create(name, isFile, parent) ==
    /\ Cardinality(Present(vault)) < MaxEntries
    /\ parent = 0 \/ (parent \in Present(vault) /\ ~vault[parent].isFile)
    /\ LET f == Cardinality(Present(vault)) + 1
           v == [vault EXCEPT ![f] = [present |-> TRUE, isFile |-> isFile,
                                      parent |-> parent, name |-> name,
                                      aliases |-> <<>>]]
       IN  /\ getAbstractFileByPath(vault, PathOf(v, f)) = 0
           /\ Len(tasks) + subscribed <= MaxTasks
           /\ vault' = v
           /\ tasks' = tasks \o onCreate(f, subscribed)
    /\ UNCHANGED <<safeNameVars, report, lastSave, settings, data, automaticRenameCallbacks,
                   subscribed, layoutReady, layoutQueue, plans, externalRenames>>

\* The user renames an entry in the host; the host triggers the rename event.
ExternalRename(f, name) ==
    /\ externalRenames < MaxExternalRenames
    /\ externalRenames' = externalRenames + 1
    /\ f \in Present(vault)
    /\ name # vault[f].name
    /\ LET v == [vault EXCEPT ![f].name = name]
       IN  /\ getAbstractFileByPath(vault, PathOf(v, f)) = 0
           /\ Len(tasks) + subscribed <= MaxTasks
           /\ vault' = v
           /\ tasks' = tasks \o onRename(v, settings, f, subscribed)
    /\ UNCHANGED <<safeNameVars, report, lastSave, settings, data, automaticRenameCallbacks,
                   subscribed, layoutReady, layoutQueue, plans>>

\* The workspace layout becomes ready: the queued callbacks run.
LayoutReady ==
    /\ ~layoutReady
    /\ layoutReady' = TRUE
    /\ IF layoutQueue > 0
       THEN SetRegistration([layoutReadyCallback(Registration)
                                EXCEPT !.layoutQueue = layoutQueue - 1])
       ELSE UNCHANGED <<automaticRenameCallbacks, subscribed, layoutQueue, data>>
    /\ UNCHANGED <<safeNameVars, report, lastSave, vault, settings, tasks, plans, externalRenames>>

\* The end of a call of saveSettings: it completed, or it threw.
SaveEnded(p) == IF p.saveThrew THEN "threw" ELSE "completed"

\* Settings tab, "Rename automatically": onChange sets the setting and
\* calls saveSettings.
ToggleRenameAutomatically ==
    /\ settings' = [settings EXCEPT !.renameAutomatically = ~@]
    /\ SetRegistration(saveSettings(Registration, settings', layoutReady))
    /\ lastSave' = SaveEnded(saveSettings(Registration, settings', layoutReady))
    /\ UNCHANGED <<safeNameVars, report, vault, layoutReady, tasks, plans,
                   externalRenames>>

\* Settings tab, "Keep original name as alias": onChange sets the setting
\* and calls saveSettings.
ToggleAddOriginalAlias ==
    /\ settings' = [settings EXCEPT !.addOriginalAlias = ~@]
    /\ SetRegistration(saveSettings(Registration, settings', layoutReady))
    /\ lastSave' = SaveEnded(saveSettings(Registration, settings', layoutReady))
    /\ UNCHANGED <<safeNameVars, report, vault, layoutReady, tasks, plans,
                   externalRenames>>

\* Command "Rename current file to be sync-safe" on the file of the view.
RenameCurrentFile(f) ==
    /\ f \in Present(vault)
    /\ vault[f].isFile
    /\ Len(tasks) < MaxTasks
    /\ tasks' = Append(tasks, renameSingleFile(vault, settings, f, "manual"))
    /\ UNCHANGED <<safeNameVars, report, lastSave, vault, settings, data, automaticRenameCallbacks,
                   subscribed, layoutReady, layoutQueue, plans, externalRenames>>

\* renameAllFiles with a loop that stops after the first entry.
renameAllFiles_firstOnly(v, filesToRename, batch) ==
    [i \in 1..(IF Len(filesToRename) > 0 THEN 1 ELSE 0) |->
        [NewTask("batch", filesToRename[i].file) EXCEPT
            !.batch = batch,
            !.pc = "move",
            !.previousName = v[filesToRename[i].file].name,
            !.safeName = filesToRename[i].safeName,
            !.newPath = getSafePath(v, filesToRename[i].file,
                                    filesToRename[i].safeName)]]

\* renameAllFiles(), up to Promise.all: every moveFile is called, and with
\* it renameFile is requested, before any of them completes.
renameAllFiles(v, filesToRename, batch) ==
    [i \in 1..Len(filesToRename) |->
        [NewTask("batch", filesToRename[i].file) EXCEPT
            !.batch = batch,
            !.pc = "move",
            !.previousName = v[filesToRename[i].file].name,
            !.safeName = filesToRename[i].safeName,
            !.newPath = getSafePath(v, filesToRename[i].file,
                                    filesToRename[i].safeName)]]

\* The moves of the call batch of renameAllFiles.
MovesOf(ts, batch) == {i \in 1..Len(ts) : ts[i].batch = batch}

\* renameAllFiles(), after Promise.all: the results are counted.
CountResults(ts, batch) ==
    [successes |-> Cardinality({i \in MovesOf(ts, batch) :
                                   ts[i].result.kind = "success"}),
     failures |-> Cardinality({i \in MovesOf(ts, batch) :
                                  ts[i].result.kind # "success"})]

\* Command "Rename all files to be sync-safe".  The SyntaxError of
\* getSafeName rejects its promise before any move is requested.
RenameAllFiles ==
    /\ Len(plans) < MaxBatches
    /\ LET filesToRename == getFilesToRename(vault, settings)
       IN  /\ Len(tasks) + Len(filesToRename.value) <= MaxTasks
           /\ plans' = Append(plans, [threw |-> filesToRename.threw,
                                      value |-> filesToRename.value,
                                      reported |-> FALSE,
                                      successes |-> 0, failures |-> 0])
           /\ tasks' = tasks \o renameAllFiles(vault, filesToRename.value,
                                               Len(plans) + 1)
    /\ UNCHANGED <<safeNameVars, report, lastSave, vault, settings, data,
                   automaticRenameCallbacks, subscribed, layoutReady, layoutQueue,
                   externalRenames>>

\* Promise.all of renameAllFiles resolves when every move has its result:
\* the successes and failures are counted and the Notice is shown.
RenameAllFilesReports(k) ==
    /\ k \in 1..Len(plans)
    /\ ~plans[k].threw
    /\ ~plans[k].reported
    /\ \A i \in MovesOf(tasks, k) : tasks[i].pc = "done"
    /\ plans' = [plans EXCEPT ![k].reported = TRUE,
                              ![k].successes = CountResults(tasks, k).successes,
                              ![k].failures = CountResults(tasks, k).failures]
    /\ UNCHANGED <<safeNameVars, report, lastSave, vault, settings, data,
                   automaticRenameCallbacks, subscribed, layoutReady, layoutQueue,
                   tasks, externalRenames>>

\* The timer of onCreate fires: renameSingleFileSilently(file).
TimerFires(i) ==
    /\ i \in 1..Len(tasks)
    /\ tasks[i].pc = "timer"
    /\ tasks' = [tasks EXCEPT ![i] = renameSingleFile(vault, settings, tasks[i].file,
                                                      "event")]
    /\ UNCHANGED <<safeNameVars, report, lastSave, vault, settings, data, automaticRenameCallbacks,
                   subscribed, layoutReady, layoutQueue, plans, externalRenames>>

\* processFrontMatter completes; renameSingleFile goes on to moveFile.
AliasWritten(i) ==
    /\ i \in 1..Len(tasks)
    /\ tasks[i].pc = "alias"
    /\ vault' = setAlias(vault, tasks[i].file, tasks[i].alias)
    /\ tasks' = [tasks EXCEPT ![i].pc = "move"]
    /\ UNCHANGED <<safeNameVars, report, lastSave, settings, data, automaticRenameCallbacks,
                   subscribed, layoutReady, layoutQueue, plans, externalRenames>>

\* renameFile completes, with an underlying failure (io) or without;
\* moveFile returns, and the call that awaited it has its result.  A
\* completed rename triggers the rename event.
MoveCompletes(i, io) ==
    /\ i \in 1..Len(tasks)
    /\ tasks[i].pc = "move"
    /\ LET t == tasks[i]
           m == moveFile(vault, t.file, t.newPath, io)
           done == [t EXCEPT !.pc = "done", !.moved = m.result,
                             !.result = IF t.origin = "batch"
                                        THEN m.result
                                        ELSE renameSingleFileResult(t, m.result)]
           fired == IF m.result.kind = "success"
                    THEN onRename(m.vault, settings, t.file, subscribed)
                    ELSE <<>>
       IN  /\ Len(tasks) + Len(fired) <= MaxTasks
           /\ vault' = m.vault
           /\ tasks' = [tasks EXCEPT ![i] = done] \o fired
    /\ UNCHANGED <<safeNameVars, report, lastSave, settings, data, automaticRenameCallbacks,
                   subscribed, layoutReady, layoutQueue, plans, externalRenames>>

Next ==
    \/ \E name \in NameChoices, isFile \in BOOLEAN, parent \in {0} \cup Ids :
          Create(name, isFile, parent)
    \/ \E f \in Ids, name \in NameChoices : ExternalRename(f, name)
    \/ LayoutReady
    \/ \E f \in Ids : RenameCurrentFile(f)
    \/ RenameAllFiles
    \/ \E k \in 1..MaxBatches : RenameAllFilesReports(k)
    \/ \E i \in 1..MaxTasks : TimerFires(i)
    \/ \E i \in 1..MaxTasks : AliasWritten(i)
    \/ \E i \in 1..MaxTasks, io \in BOOLEAN : MoveCompletes(i, io)

Spec == Init /\ [][Next]_vars

(***************************************************************************)
(* getSafeName alone: the arguments are drawn, the function is called,     *)
(* and it is called again on what it returned.                             *)
(***************************************************************************)
SafeNameInit ==
    /\ inputName \in SeqsUpTo(RawAlphabet, MaxRawLen)
    /\ inputAdditional \in SeqsUpTo(AddAlphabet, MaxAddLen)
    /\ calls = <<>>
    /\ vault = [e \in Ids |-> NoEntry]
    /\ settings = [renameAutomatically |-> FALSE, addOriginalAlias |-> TRUE,
                   additionalCharacters |-> <<>>]
    /\ data = settings
    /\ automaticRenameCallbacks = [defined |-> FALSE, length |-> 0]
    /\ subscribed = 0
    /\ layoutReady = FALSE
    /\ layoutQueue = 0
    /\ tasks = <<>>
    /\ plans = <<>>
    /\ externalRenames = 0
    /\ report = NoReport
    /\ lastSave = "none"

\* getSafeName(inputName, inputAdditional)
Sanitize ==
    /\ calls = <<>>
    /\ calls' = <<getSafeName(inputName, inputAdditional)>>
    /\ UNCHANGED <<inputName, inputAdditional, pluginVars>>

\* getSafeName(getSafeName(inputName, inputAdditional), inputAdditional):
\* an exception of the inner call leaves the outer one.
SanitizeAgain ==
    /\ Len(calls) = 1
    /\ calls' = Append(calls, IF calls[1].threw
                              THEN Threw
                              ELSE getSafeName(calls[1].value, inputAdditional))
    /\ UNCHANGED <<inputName, inputAdditional, pluginVars>>

SafeNameNext == Sanitize \/ SanitizeAgain

SafeNameSpec == SafeNameInit /\ [][SafeNameNext]_vars


(***************************************************************************)
(* Properties of getSafeName, under SafeNameSpec.                          *)
(***************************************************************************)

\* The effective allow-list of the specification: A-Z, a-z, 0-9, hyphen,
\* period, underscore and space, and the characters of the additional
\* characters other than "[" and "]".
InAllowList(c, additional) ==
    \/ c \in UPPER_A..UPPER_Z
    \/ c \in LOWER_A..LOWER_Z
    \/ c \in DIGIT_0..DIGIT_9
    \/ c \in {HYPHEN, DOT, UNDERSCORE, SPACE}
    \/ \E i \in 1..Len(additional) :
          additional[i] = c /\ c \notin {LBRACKET, RBRACKET}

NoOuterWhitespace(s) ==
    s # <<>> => ~IsWhiteSpace(s[1]) /\ ~IsWhiteSpace(s[Len(s)])

\* C2: getSafeName(getSafeName(s, A), A) = getSafeName(s, A) for every raw
\* name s and every additional-characters string A: the second call returns
\* what the first returned (and where the RegExp constructor throws for A,
\* both sides raise that error).
C2_Idempotent == Len(calls) = 2 => calls[2] = calls[1]

\* C2, witness: with additional characters given, the first call changed
\* the name and the second call has returned.
C2_Witness ==
    /\ Len(calls) = 2
    /\ ~calls[1].threw
    /\ inputAdditional # <<>>
    /\ calls[1].value # inputName
    /\ calls[1].value # <<>>

\* C3: every character of the name getSafeName returns is in the effective
\* allow-list, and the name has no leading or trailing whitespace.
C3_OutputInAllowList ==
    (Len(calls) >= 1 /\ ~calls[1].threw) =>
        /\ \A i \in 1..Len(calls[1].value) :
              InAllowList(calls[1].value[i], inputAdditional)
        /\ NoOuterWhitespace(calls[1].value)

\* C4: a name whose characters are all in the effective allow-list and that
\* has no leading or trailing whitespace is returned unchanged.
C4_SafeNameUnchanged ==
    (/\ Len(calls) >= 1
     /\ ~calls[1].threw
     /\ \A i \in 1..Len(inputName) : InAllowList(inputName[i], inputAdditional)
     /\ NoOuterWhitespace(inputName))
    => calls[1].value = inputName

\* C5: getSafeName returns a string for every raw name and every
\* additional-characters string; it never raises an error.
C5_Total == Len(calls) >= 1 => ~calls[1].threw


(***************************************************************************)
(* Properties of the plugin, under Spec.                                   *)
(***************************************************************************)

\* Attempt i leaves pc from for pc to in this step.
Goes(i, from, to) ==
    /\ i \in 1..Len(tasks)
    /\ tasks[i].pc = from
    /\ tasks'[i].pc = to

\* Attempt i is a call of renameSingleFile that starts in this step.
Starts(i) ==
    /\ i \in 1..Len(tasks')
    /\ tasks'[i].origin # "batch"
    /\ tasks'[i].pc # "timer"
    /\ i > Len(tasks) \/ tasks[i].pc = "timer"

\* The name is not the name getSafeName returns for it.
Unsafe(name) ==
    LET safe == getSafeName(name, settings.additionalCharacters)
    IN  ~safe.threw /\ safe.value # name

AlreadySafe(name) ==
    LET safe == getSafeName(name, settings.additionalCharacters)
    IN  ~safe.threw /\ safe.value = name

\* C1: no step of any interleaving of single-file, batch and automatic
\* renames overwrites an entry: every entry that existed still exists, an
\* entry whose path changes gets a path no entry had before the step, and
\* no two entries share a path.
C1_NoOverwrite ==
    [][/\ Present(vault) \subseteq Present(vault')
       /\ \A e \in Present(vault) :
             PathOf(vault', e) # PathOf(vault, e)
                => getAbstractFileByPath(vault, PathOf(vault', e)) = 0
       /\ \A e1, e2 \in Present(vault') :
             e1 # e2 => PathOf(vault', e1) # PathOf(vault', e2)]_vars

\* C1, witness: a move onto an occupied path was requested and refused,
\* and both entries are still there.
C1_Witness ==
    \E i \in 1..Len(tasks) :
        /\ tasks[i].pc = "done"
        /\ tasks[i].moved.message = "Destination file already exists!"
        /\ Cardinality(Present(vault)) = 2

\* C6: what getFilesToRename returns has exactly one entry for each regular
\* file whose name differs from getSafeName(name, additionalCharacters), no
\* other entry, and in each entry the safeName getSafeName returns, which
\* differs from the file's name.  (Where getSafeName raises its SyntaxError,
\* getFilesToRename raises it and returns nothing.)
C6_FilesToRenameExact ==
    [][Len(plans') > Len(plans) =>
         LET filesToRename == plans'[Len(plans')]
             regular == {f \in Present(vault) : vault[f].isFile}
         IN  IF \E f \in regular :
                   getSafeName(vault[f].name, settings.additionalCharacters).threw
             THEN filesToRename.threw
             ELSE /\ ~filesToRename.threw
                  /\ \A f \in regular :
                        Cardinality({i \in 1..Len(filesToRename.value) :
                                        filesToRename.value[i].file = f})
                           = IF Unsafe(vault[f].name) THEN 1 ELSE 0
                  /\ \A i \in 1..Len(filesToRename.value) :
                        LET entry == filesToRename.value[i]
                        IN  /\ entry.file \in regular
                            /\ entry.safeName
                                  = getSafeName(vault[entry.file].name,
                                                settings.additionalCharacters).value
                            /\ entry.safeName # vault[entry.file].name]_vars

\* C6, witness: of two regular files, one with a safe name, getFilesToRename
\* has returned the entry of the other one alone.
C6_Witness ==
    /\ Len(plans) = 1
    /\ ~plans[1].threw
    /\ Len(plans[1].value) = 1
    /\ Cardinality({f \in Present(vault) : vault[f].isFile}) = 2

\* C7: a failed move of renameSingleFile gives the code alreadyExists with
\* the safe name when the destination exists, and the code unspecified with
\* the underlying message for any other failure.
C7_ErrorKinds ==
    \A i \in 1..Len(tasks) :
        (/\ tasks[i].origin # "batch"
         /\ tasks[i].pc = "done"
         /\ tasks[i].moved.kind = "failure")
        => IF tasks[i].moved.message = "Destination file already exists!"
           THEN /\ tasks[i].result.kind = "failure"
                /\ tasks[i].result.code = "alreadyExists"
                /\ tasks[i].result.safeName = tasks[i].safeName
           ELSE /\ tasks[i].result.kind = "failure"
                /\ tasks[i].result.code = "unspecified"
                /\ tasks[i].result.message = tasks[i].moved.message

\* C7, the failure it is about: a move that failed for another reason than
\* an occupied destination.
C7_OtherFailure ==
    \E i \in 1..Len(tasks) :
        /\ tasks[i].origin # "batch"
        /\ tasks[i].pc = "done"
        /\ tasks[i].moved.kind = "failure"
        /\ tasks[i].moved.message = "EIO"

\* The attempts that have written their alias for the entry f.
AliasWriters(f) ==
    {i \in 1..Len(tasks) :
        /\ tasks[i].file = f
        /\ tasks[i].alias # <<>>
        /\ tasks[i].pc \in {"move", "done"}}

C9_FailedRenameLeavesFileUnchanged ==
    (/\ Len(tasks) = 1
     /\ externalRenames = 0
     /\ tasks[1].pc = "done"
     /\ tasks[1].result.kind = "failure")
    => /\ vault[tasks[1].file].name = tasks[1].previousName
       /\ PathOf(vault, tasks[1].file)
             = Join(Append(SubSeq(tasks[1].newPath, 1, Len(tasks[1].newPath) - 1),
                           tasks[1].previousName), SLASH)
       /\ vault[tasks[1].file].aliases = <<>>

\* C9, amended: the step in which an attempt ends in failure changes
\* nothing in the vault, and the failure is the result of the attempt; the
\* only write of the attempt is the alias renameSingleFile appended before
\* the move (C8), which changes no name and no folder and is still in the
\* aliases after the failure.
C9_FailedMoveChangesNothing ==
    [][\A i \in 1..Len(tasks) :
          /\ (Goes(i, "move", "done") /\ tasks'[i].moved.kind = "failure") =>
                /\ vault' = vault
                /\ tasks'[i].result.kind = "failure"
                /\ tasks'[i].alias # <<>> =>
                      \E k \in 1..Len(vault'[tasks'[i].file].aliases) :
                          vault'[tasks'[i].file].aliases[k] = tasks'[i].alias
          /\ Goes(i, "alias", "move") =>
                vault' = [vault EXCEPT ![tasks[i].file].aliases
                                          = Append(@, tasks[i].alias)]]_vars

\* C9, witness: an attempt has ended in failure after it wrote its alias.
C9_Witness ==
    \E i \in 1..Len(tasks) :
        /\ tasks[i].pc = "done"
        /\ tasks[i].result.kind = "failure"
        /\ tasks[i].alias # <<>>
        /\ vault[tasks[i].file].name = tasks[i].previousName
        /\ vault[tasks[i].file].aliases # <<>>

\* C10: a call of renameSingleFile on an entry whose name is its safe name
\* returns success with alreadySafe true at once: it requests no alias and
\* no move, and the entry keeps its name and its aliases.
C10_AlreadySafeNoOp ==
    [][\A i \in 1..Len(tasks') :
          (Starts(i) /\ AlreadySafe(tasks'[i].previousName)) =>
             /\ tasks'[i].pc = "done"
             /\ tasks'[i].result = success(TRUE, <<>>)
             /\ tasks'[i].alias = <<>>
             /\ tasks'[i].newPath = <<>>
             /\ tasks'[i].moved = NoResult
             /\ vault'[tasks'[i].file].name = tasks'[i].previousName
             /\ vault'[tasks'[i].file].aliases = vault[tasks'[i].file].aliases
             /\ externalRenames' = externalRenames /\ i <= Len(tasks) + 1
                   /\ (\A k \in 1..Len(tasks) : tasks[k].pc # "move" \/ tasks'[k].pc = "move")
                   => vault' = vault]_vars

\* C10, witness: the command was run on a file whose name was already safe.
C10_Witness ==
    \E i \in 1..Len(tasks) :
        /\ tasks[i].origin = "manual"
        /\ tasks[i].pc = "done"
        /\ tasks[i].result.kind = "success"
        /\ tasks[i].result.alreadySafe
        /\ tasks[i].previousName = vault[tasks[i].file].name

\* C11: renameAllFiles requests, before any of them completes, one move for
\* every entry getFilesToRename returned; a failing move changes nothing in
\* the vault, so what was renamed stays renamed; and when all its moves are
\* done it reports successes and failures that add up to the entries planned.
C11_BatchCounts ==
    [][/\ Len(plans') > Len(plans) =>
             LET k == Len(plans')
                 planned == plans'[k].value
             IN  /\ Len(tasks') = Len(tasks) + Len(planned)
                 /\ \A j \in 1..Len(planned) :
                       LET t == tasks'[Len(tasks) + j]
                       IN  /\ t.file = planned[j].file
                           /\ t.batch = k
                           /\ t.pc = "move"
                           /\ t.newPath = getSafePath(vault, planned[j].file,
                                                      planned[j].safeName)
       /\ \A i \in 1..Len(tasks) :
             (tasks[i].batch # 0 /\ Goes(i, "move", "done")
              /\ tasks'[i].result.kind = "failure") => vault' = vault
       /\ \A k \in 1..Len(plans) :
             (Len(plans') = Len(plans) /\ plans'[k].reported /\ ~plans[k].reported) =>
                /\ \A i \in 1..Len(tasks) : tasks[i].batch = k => tasks[i].pc = "done"
                /\ plans'[k].successes
                      = Cardinality({i \in 1..Len(tasks) :
                                        /\ tasks[i].batch = k
                                        /\ tasks[i].moved.kind = "success"})
                /\ plans'[k].successes + plans'[k].failures = Len(plans[k].value)]_vars

\* C11, witness: a batch of two moves, one failed and one succeeded, has
\* reported one success and one failure.
C11_Witness ==
    \E k \in 1..Len(plans) :
        /\ plans[k].reported
        /\ plans[k].successes = 1
        /\ plans[k].failures = 1

(***************************************************************************)
(* generateReport alone: the plugin is loaded on a vault that has its      *)
(* entries already, and the report command is run.                         *)
(***************************************************************************)

\* The state in which the report command is given: the plugin loaded with
\* automatic renaming off, the vault filled by Populate.
ReportInit ==
    /\ inputName = <<>>
    /\ inputAdditional = <<>>
    /\ calls = <<>>
    /\ vault = [e \in Ids |-> NoEntry]
    /\ settings \in [renameAutomatically : {FALSE}, addOriginalAlias : {TRUE},
                     additionalCharacters : AdditionalChoices]
    /\ data = settings
    /\ automaticRenameCallbacks = [defined |-> FALSE, length |-> 0]
    /\ subscribed = 0
    /\ layoutReady = FALSE
    /\ layoutQueue = 0
    /\ tasks = <<>>
    /\ plans = <<>>
    /\ externalRenames = 0
    /\ report = NoReport
    /\ lastSave = "none"

\* The host creates a file or a folder before the report is asked for; no
\* handler is subscribed.
Populate(name, isFile, parent) ==
    /\ ~report.inserted /\ ~report.threw
    /\ Cardinality(Present(vault)) < MaxIds
    /\ parent = 0 \/ (parent \in Present(vault) /\ ~vault[parent].isFile)
    /\ LET f == Cardinality(Present(vault)) + 1
           v == [vault EXCEPT ![f] = [present |-> TRUE, isFile |-> isFile,
                                      parent |-> parent, name |-> name,
                                      aliases |-> <<>>]]
       IN  /\ getAbstractFileByPath(vault, PathOf(v, f)) = 0
           /\ vault' = v
    /\ UNCHANGED <<safeNameVars, report, lastSave, settings, data,
                   automaticRenameCallbacks, subscribed, layoutReady, layoutQueue,
                   tasks, plans, externalRenames>>

\* Command "Insert report of all unsafe file names".
GenerateReport ==
    /\ ~report.inserted /\ ~report.threw
    /\ report' = generateReport(vault, settings)
    /\ UNCHANGED <<safeNameVars, lastSave, vault, settings, data,
                   automaticRenameCallbacks, subscribed, layoutReady, layoutQueue,
                   tasks, plans, externalRenames>>

ReportNext ==
    \/ \E name \in NameChoices, isFile \in BOOLEAN, parent \in 0..(MaxIds - 1) :
          Populate(name, isFile, parent)
    \/ GenerateReport

ReportSpec == ReportInit /\ [][ReportNext]_vars

\* C12: the report has a row for each unsafe file; the row marks the rename
\* as possible exactly when the target path (the folders of the file, then
\* the safe name) names no file or folder, and otherwise names that
\* occupied path; and generating the report requests no move.
C12_ReportMarksCollisions ==
    report.inserted =>
       /\ \A i \in 1..Len(report.rows) :
             LET row == report.rows[i]
                 targetPath ==
                     IF vault[row.file].parent = 0
                     THEN row.safeName
                     ELSE PathOf(vault, vault[row.file].parent)
                          \o <<SLASH>> \o row.safeName
                 occupied == \E e \in Present(vault) : PathOf(vault, e) = targetPath
             IN  /\ row.newPathAvailable <=> ~occupied
                 /\ occupied => row.alreadyExists = targetPath
       /\ tasks = <<>>

\* C12 without the path named: a rename is marked as possible exactly when
\* nothing is at the target path.
C12_AvailabilityOnly ==
    report.inserted =>
       \A i \in 1..Len(report.rows) :
          LET row == report.rows[i]
              targetPath ==
                  IF vault[row.file].parent = 0
                  THEN row.safeName
                  ELSE PathOf(vault, vault[row.file].parent)
                       \o <<SLASH>> \o row.safeName
          IN  row.newPathAvailable
                 <=> ~ \E e \in Present(vault) : PathOf(vault, e) = targetPath

\* C13: no operation of the plugin requests a move or an alias write for an
\* entry that is not a regular file.
C13_FoldersExcluded ==
    \A i \in 1..Len(tasks) :
        (tasks[i].newPath # <<>> \/ tasks[i].alias # <<>>)
           => vault[tasks[i].file].isFile

\* C13, the part that holds: no alias write is requested for a folder, and
\* the batch and the manual command request moves for regular files only.
C13_NoFolderAliasNoFolderBatch ==
    \A i \in 1..Len(tasks) :
        /\ tasks[i].alias # <<>> => vault[tasks[i].file].isFile
        /\ tasks[i].origin # "event" => vault[tasks[i].file].isFile

\* The typographic replacements of the specification, for one character.
Normalized(c) ==
    CASE c \in {EN_DASH, EM_DASH} -> HYPHEN
      [] c = RSQUO -> APOSTROPHE
      [] c \in {LDQUO, RDQUO} -> QUOTE
      [] OTHER -> c

\* The reference computation of the specification: per character the
\* typographic replacement, then a hyphen for what is not in the effective
\* allow-list, then the outer whitespace trimmed.
Reference(s, additional) ==
    Trim([i \in 1..Len(s) |->
             IF InAllowList(Normalized(s[i]), additional)
             THEN Normalized(s[i])
             ELSE HYPHEN])

\* C14: getSafeName(s, A) is the reference computation applied to s and A.
C14_EqualsReference ==
    (Len(calls) >= 1 /\ ~calls[1].threw)
       => calls[1].value = Reference(inputName, inputAdditional)

\* C14, the part that holds: what getSafeName returns is a stretch of the
\* raw name in which each character is itself, its typographic replacement
\* or one hyphen; nothing is dropped inside and nothing is collapsed.
C14_OneForOne ==
    (Len(calls) >= 1 /\ ~calls[1].threw)
       => \E offset \in 0..Len(inputName) :
             /\ offset + Len(calls[1].value) <= Len(inputName)
             /\ \A i \in 1..Len(calls[1].value) :
                   calls[1].value[i] \in {Normalized(inputName[i + offset]), HYPHEN}
             /\ \A i \in 1..Len(inputName) :
                   (i <= offset \/ i > offset + Len(calls[1].value))
                      => IsWhiteSpace(inputName[i])

\* The moves of the batch of move i that have the target path of move i.
SameTarget(i) ==
    {j \in 1..Len(tasks) :
        /\ tasks[j].batch = tasks[i].batch
        /\ tasks[j].newPath = tasks[i].newPath}

\* Only the moves of the batch of move i have acted: every attempt is one of
\* them or has requested nothing, the user has renamed nothing, no move met
\* an underlying failure, and no entry other than their files has come to
\* lie at the target path.
BatchAlone(i) ==
    /\ externalRenames = 0
    /\ \A j \in 1..Len(tasks) :
          /\ tasks[j].batch = tasks[i].batch \/ tasks[j].newPath = <<>>
          /\ tasks[j].moved.message \notin {"EIO", "ENOENT"}
    /\ \A e \in Present(vault) :
          PathOf(vault, e) = Join(tasks[i].newPath, SLASH)
             => \E j \in SameTarget(i) : tasks[j].file = e

\* C15: when a batch has several files with one and the same free target
\* path, then, in whatever order its moves complete, exactly one of them
\* succeeds and the others are rejected because the destination exists; all
\* the files still exist afterwards, the rejected ones under their names.
C15_OneWinner ==
    \A i \in 1..Len(tasks) :
        (/\ tasks[i].batch # 0
         /\ Cardinality(SameTarget(i)) >= 2
         /\ \A j \in SameTarget(i) : tasks[j].pc = "done"
         /\ BatchAlone(i))
        => /\ Cardinality({j \in SameTarget(i) : tasks[j].result.kind = "success"}) = 1
           /\ \A j \in SameTarget(i) :
                 /\ vault[tasks[j].file].present
                 /\ tasks[j].result.kind # "success" =>
                       /\ tasks[j].result.code = "alreadyExists"
                       /\ tasks[j].moved.message = "Destination file already exists!"
                       /\ vault[tasks[j].file].name = tasks[j].previousName
                 /\ tasks[j].result.kind = "success" =>
                       PathOf(vault, tasks[j].file) = Join(tasks[j].newPath, SLASH)

\* C15, witness: both moves of such a batch are done.
C15_Witness ==
    \E i \in 1..Len(tasks) :
        /\ tasks[i].batch # 0
        /\ Cardinality(SameTarget(i)) = 2
        /\ \A j \in SameTarget(i) : tasks[j].pc = "done"
        /\ BatchAlone(i)

\* The step is an event of the host that the plugin did not cause: an entry
\* is created or the user renames one.
ExternalEvent ==
    \/ externalRenames' # externalRenames
    \/ Cardinality(Present(vault')) > Cardinality(Present(vault))

\* A move of the plugin completes successfully in the step.
MoveSucceeds ==
    \E i \in 1..Len(tasks) :
        Goes(i, "move", "done") /\ tasks'[i].moved.kind = "success"

\* C19: automatic renaming comes to rest.  An event of the host starts at
\* most one call of the handler, and so at most one alias write and one move;
\* the rename event the plugin's own move fires starts at most one call,
\* which finds the name already safe and requests nothing; and no other
\* step starts a handler.
C19_Quiescence ==
    [][/\ subscribed <= 1
       /\ ExternalEvent => Len(tasks') - Len(tasks) <= 1
       /\ MoveSucceeds =>
             /\ Len(tasks') - Len(tasks) <= 1
             /\ \A j \in (Len(tasks) + 1)..Len(tasks') :
                   /\ tasks'[j].pc = "done"
                   /\ tasks'[j].result = success(TRUE, <<>>)
                   /\ tasks'[j].newPath = <<>>
                   /\ tasks'[j].alias = <<>>
       /\ \A j \in (Len(tasks) + 1)..Len(tasks') :
             tasks'[j].origin = "event" => ExternalEvent \/ MoveSucceeds]_vars

\* C19, witness: the handler of the create event has renamed a file, and the
\* handler of the rename event that followed has found the name safe.
C19_Witness ==
    \E i, j \in 1..Len(tasks) :
        /\ i < j
        /\ tasks[i].origin = "event"
        /\ tasks[i].result.kind = "success"
        /\ ~tasks[i].result.alreadySafe
        /\ tasks[j].origin = "event"
        /\ tasks[j].file = tasks[i].file
        /\ tasks[j].previousName = tasks[i].safeName
        /\ tasks[j].result = success(TRUE, <<>>)

(***************************************************************************)
(* The plugin with its settings tab: the settings are toggled while files  *)
(* are created and renamed.                                                *)
(***************************************************************************)
LifecycleInit ==
    /\ inputName = <<>>
    /\ inputAdditional = <<>>
    /\ calls = <<>>
    /\ Loaded([renameAutomatically : BOOLEAN, addOriginalAlias : BOOLEAN,
               additionalCharacters : {<<>>}])

LifecycleNext ==
    \/ \E name \in NameChoices, isFile \in BOOLEAN, parent \in {0} \cup Ids :
          Create(name, isFile, parent)
    \/ LayoutReady
    \/ ToggleRenameAutomatically
    \/ ToggleAddOriginalAlias
    \/ \E f \in Ids : RenameCurrentFile(f)
    \/ \E i \in 1..MaxTasks : TimerFires(i)
    \/ \E i \in 1..MaxTasks : AliasWritten(i)
    \/ \E i \in 1..MaxTasks, io \in BOOLEAN : MoveCompletes(i, io)

LifecycleSpec == LifecycleInit /\ [][LifecycleNext]_vars

\* C16: after the load and after every completed call of saveSettings, the
\* create and rename handlers are subscribed if and only if
\* renameAutomatically is true, and each of them at most once.
C16_SubscribedIffAutomatic ==
    lastSave # "threw" =>
        /\ subscribed <= 1
        /\ settings.renameAutomatically <=> subscribed = 1

\* C16, amended: the subscription the load asks for waits until the layout
\* is ready.  After the load the handlers are subscribed, or their
\* subscription waits for the layout, if and only if renameAutomatically is
\* true; once the layout is ready nothing waits; after every completed call
\* of saveSettings they are subscribed if and only if renameAutomatically
\* is true; and each handler is subscribed at most once, the references
\* held being those of the subscribed handlers.
C16_SubscribedOnceLayoutReady ==
    /\ subscribed + layoutQueue <= 1
    /\ layoutReady => layoutQueue = 0
    /\ automaticRenameCallbacks.defined
          => automaticRenameCallbacks.length = 2 * subscribed
    /\ lastSave = "none"
          => (settings.renameAutomatically <=> subscribed + layoutQueue = 1)
    /\ lastSave = "completed"
          => (settings.renameAutomatically <=> subscribed = 1)

\* C16, witness: a call of saveSettings completed while the files of an
\* earlier create event wait for their timers, and the handlers are
\* subscribed.
C16_Witness ==
    /\ lastSave = "completed"
    /\ settings.renameAutomatically
    /\ data = settings
    /\ subscribed = 1
    /\ \E i \in 1..Len(tasks) : tasks[i].origin = "event"

\* With the other value of addOriginalAlias.
OtherAlias(st) == [st EXCEPT !.addOriginalAlias = ~@]

C18_SaveCompletes ==
    /\ lastSave # "threw"
    /\ lastSave = "completed" => data = settings

\* C20: once renameAutomatically is false and the handlers are unsubscribed,
\* no automatically triggered attempt requests an alias write or a move any
\* more, the attempts whose create event came before the switch-off included.
C20_NothingAfterSwitchOff ==
    [][(/\ ~settings.renameAutomatically
        /\ automaticRenameCallbacks.defined
        /\ subscribed = 0)
       => \A i \in 1..Len(tasks) :
             tasks[i].origin = "event" =>
                /\ ~Goes(i, "timer", "alias")
                /\ ~Goes(i, "timer", "move")
                /\ ~Goes(i, "alias", "move")]_vars

\* C20, the part that holds: after the switch-off no event of the host
\* starts a handler, and no alias write is requested any more.
C20_NoNewHandlers ==
    [][(/\ ~settings.renameAutomatically
        /\ automaticRenameCallbacks.defined
        /\ subscribed = 0)
       => /\ Len(tasks') >= Len(tasks)
          /\ \A j \in (Len(tasks) + 1)..Len(tasks') : tasks'[j].origin # "event"
          /\ \A i \in 1..Len(tasks) : ~Goes(i, "timer", "alias")]_vars

=============================================================================
